---- MODULE Spec2Model ----
(***************************************************************************)
(* A model of learning/predict.py: one run of main() as a sequence of      *)
(* steps (device, input, model, weights, eval, logger, forward passes,     *)
(* report, exportation, vanishing point), and _vanishing() as operators.   *)
(* The imported framework (torch, cv2, PIL, the model classes) is the      *)
(* environment: what it returns is drawn from bounded sets, and any of     *)
(* its calls that can raise may raise.                                     *)
(***************************************************************************)
EXTENDS Integers, Sequences, FiniteSets

VARIABLES
    model_id,      \* argument of main
    vanishing,     \* argument of main
    cuda,          \* torch.cuda.is_available()
    inputExists,   \* environment: Image.open(input_pth) succeeds
    weightsExists, \* environment: torch.load(weights_pth) succeeds
    net,           \* environment: what the trained network computes on the input
    latency,       \* environment: the elapsed times the device timer may report
    pc,            \* position in main
    inpt,          \* local inpt
    model,         \* local model
    weightsRead,   \* whether torch.load(weights_pth) was called
    times,         \* local times, as counts per recorded value
    idx,           \* timed passes done (loop index of line 151)
    warm,          \* warm-up passes done (loop index of line 147)
    outpt,         \* local outpt
    printed,       \* standard output, a sequence of lines
    outfile,       \* the writes to output_pth, oldest first
    steps,         \* the steps attempted so far, oldest first
    error          \* the exception that ended the run, "" when none

vars == <<model_id, vanishing, cuda, inputExists, weightsExists, net, latency,
          pc, inpt, model, weightsRead, times, idx, warm, outpt, printed,
          outfile, steps, error>>

----------------------------------------------------------------------------
(* Bounds of the model *)

MaxNumel == 9
MaxDim == 4
TimeVals == {1, 2}

(* Program constants *)

n_warmup == 10
n_passes == 100

Recognized == {"densenet121", "densenet161", "small", "unet", "midas"}
ModelIds == Recognized \cup {"resnet"}

Nets == {[numel |-> k, vp |-> v] : k \in 1..MaxNumel, v \in 0..(MaxNumel - 1)}
NetOutputs == {t \in Nets : t.vp < t.numel}

----------------------------------------------------------------------------
(* Values *)

NoTensor == [kind |-> "none", device |-> "none", numel |-> 0, vp |-> 0]
NoImg == [w |-> 0, h |-> 0, rects |-> <<>>]
NoModel == [ctor |-> "none", device |-> "none", weights |-> FALSE, eval |-> FALSE]
NoInput == [kind |-> "none", size |-> <<0, 0>>, device |-> "none"]

Line(tag, dev, num, den, t) ==
    [tag |-> tag, device |-> dev, num |-> num, den |-> den, tensor |-> t]

FileWrite(kind, t, img) == [kind |-> kind, tensor |-> t, img |-> img]

\* device = torch.device('cuda' if torch.cuda.is_available() else 'cpu')
device == IF cuda THEN "cuda" ELSE "cpu"

\* size = (224, 384) if model_id == 'midas' else (180, 320)
size == IF model_id = "midas" THEN <<224, 384>> ELSE <<180, 320>>

\* models.get(model_id, 'densenet161'): a constructor, or the string default
ModelsGet(id) ==
    IF id \in Recognized THEN [callable |-> TRUE, name |-> id]
    ELSE [callable |-> FALSE, name |-> "densenet161"]

\* model(inpt): the network is a function of its weights and its input
Forward(m, x) ==
    [kind |-> "tensor", device |-> m.device, numel |-> net.numel, vp |-> net.vp]

----------------------------------------------------------------------------
(* times: np.zeros((n_passes, 1)), kept as the number of entries per value *)

TimeDomain == {0} \cup TimeVals
NoTimes == [v \in TimeDomain |-> 0]
NpZeros(k) == [v \in TimeDomain |-> IF v = 0 THEN k ELSE 0]

\* times[idx] = time, on an entry that still holds 0
Record(ts, t) == [v \in TimeDomain |->
                    IF t = 0 THEN ts[v]
                    ELSE IF v = 0 THEN ts[0] - 1
                    ELSE IF v = t THEN ts[v] + 1
                    ELSE ts[v]]

RECURSIVE SumOver(_, _)
SumOver(ts, S) ==
    IF S = {} THEN 0
    ELSE LET v == CHOOSE x \in S : TRUE
         IN  v * ts[v] + SumOver(ts, S \ {v})

RECURSIVE CountOver(_, _)
CountOver(ts, S) ==
    IF S = {} THEN 0
    ELSE LET v == CHOOSE x \in S : TRUE
         IN  ts[v] + CountOver(ts, S \ {v})

TimesSum(ts) == SumOver(ts, TimeDomain)
TimesSize(ts) == CountOver(ts, TimeDomain)

\* np.mean(times), as the fraction <<numerator, denominator>>
NpMean(ts) == <<TimesSum(ts), TimesSize(ts)>>

\* np.mean(times) / n_passes
ReportedMean(ts) == <<NpMean(ts)[1], NpMean(ts)[2] * n_passes>>

----------------------------------------------------------------------------
(* _vanishing *)

\* int(math.sqrt(m))
IntSqrt(m) == CHOOSE k \in 0..m : k * k <= m /\ (k + 1) * (k + 1) > m

\* product(range(n), range(n)): the pairs (j, i), the second index fastest
Range(n) == [k \in 1..n |-> k - 1]

RECURSIVE Pairs(_, _)
Pairs(a, B) ==
    IF B = <<>> THEN <<>> ELSE <<<<a, Head(B)>>>> \o Pairs(a, Tail(B))

\* the pairs with the first index fastest
RECURSIVE ProductColumnMajor(_, _)
ProductColumnMajor(A, B) ==
    IF B = <<>> THEN <<>>
    ELSE [k \in 1..Len(A) |-> <<A[k], Head(B)>>] \o ProductColumnMajor(A, Tail(B))

RECURSIVE Product(_, _)
Product(A, B) ==
    IF A = <<>> THEN <<>> ELSE Pairs(Head(A), B) \o Product(Tail(A), B)

Rect(p1, p2, colour) == [p1 |-> p1, p2 |-> p2, colour |-> colour]

\* lines 58-61: the corners of the cell of the pair (j, i)
CellCorners(ji, cell) ==
    LET j == ji[1]
        i == ji[2]
        left == i * cell[1]
        right == (i + 1) * cell[1]
        bottom == j * cell[2]
        top == (j + 1) * cell[2]
    IN  <<<<left, bottom>>, <<right, top>>>>

\* lines 57-66: the red rectangles, in the order they are drawn
GridRects(n, cell) ==
    LET ps == Product(Range(n), Range(n))
    IN  [k \in 1..Len(ps) |->
            Rect(CellCorners(ps[k], cell)[1], CellCorners(ps[k], cell)[2], "red")]

\* lines 63-64: vp_cell after the loop, <<>> when it was never assigned
VpCell(n, cell, vp) ==
    LET ps == Product(Range(n), Range(n))
    IN  IF \E k \in 1..Len(ps) : k - 1 = vp
        THEN CellCorners(ps[vp + 1], cell)
        ELSE <<>>

\* _vanishing(input_pth, outpt) on an image of width w and height h;
\* readable is whether cv2.imread returned an image
Vanishing(readable, w, h, out) ==
    IF ~readable THEN [error |-> "AttributeError", img |-> NoImg]
    ELSE IF out.kind # "tensor" THEN [error |-> "TypeError", img |-> NoImg]
    ELSE LET vp == out.vp
             n == IntSqrt(out.numel)
         IN  IF n = 0 THEN [error |-> "ZeroDivisionError", img |-> NoImg]
             ELSE LET cell == <<w \div n, h \div n>>
                      vp_cell == VpCell(n, cell, vp)
                  IN  IF vp_cell = <<>>
                      THEN [error |-> "UnboundLocalError", img |-> NoImg]
                      ELSE [error |-> "",
                            img |-> [w |-> w, h |-> h,
                                     rects |-> Append(GridRects(n, cell),
                                                Rect(vp_cell[1], vp_cell[2], "green"))]]

----------------------------------------------------------------------------
(* main *)

Init ==
    /\ model_id \in ModelIds
    /\ vanishing \in BOOLEAN
    /\ cuda \in BOOLEAN
    /\ inputExists \in BOOLEAN
    /\ weightsExists \in BOOLEAN
    /\ net \in NetOutputs
    /\ latency \in {{t} : t \in TimeVals}
    /\ pc = "device"
    /\ inpt = NoInput
    /\ model = NoModel
    /\ weightsRead = FALSE
    /\ times = NoTimes
    /\ idx = 0
    /\ warm = 0
    /\ outpt = NoTensor
    /\ printed = <<>>
    /\ outfile = <<>>
    /\ steps = <<>>
    /\ error = ""

Params == <<model_id, vanishing, cuda, inputExists, weightsExists, net, latency>>

\* an exception that is swallowed: the step is left to run again
RaiseAndRetry(step, exc) ==
    /\ pc' = pc
    /\ error' = exc
    /\ steps' = Append(steps, step)

\* an unhandled exception: the process ends where it is
Raise(step, exc) ==
    /\ pc' = "failed"
    /\ error' = exc
    /\ steps' = Append(steps, step)

Goto(step, next) ==
    /\ pc' = next
    /\ steps' = Append(steps, step)
    /\ UNCHANGED error

\* lines 88-92
Device ==
    /\ pc = "device"
    /\ printed' = Append(printed, Line("Device", device, 0, 0, NoTensor))
    /\ Goto("device", "input")
    /\ UNCHANGED <<Params, inpt, model, weightsRead, times, idx, warm, outpt, outfile>>

\* lines 95-108
Input ==
    /\ pc = "input"
    /\ IF inputExists
       THEN /\ inpt' = [kind |-> "tensor", size |-> size, device |-> "cpu"]
            /\ Goto("input", "model")
       ELSE /\ Raise("input", "FileNotFoundError")
            /\ UNCHANGED inpt
    /\ UNCHANGED <<Params, model, weightsRead, times, idx, warm, outpt, printed, outfile>>

\* lines 111-122
Model ==
    /\ pc = "model"
    /\ LET ctor == ModelsGet(model_id)
       IN  IF ctor.callable
           THEN /\ model' = [ctor |-> ctor.name, device |-> device,
                             weights |-> FALSE, eval |-> FALSE]
                /\ Goto("model", "weights")
           ELSE /\ Raise("model", "TypeError")
                /\ UNCHANGED model
    /\ UNCHANGED <<Params, inpt, weightsRead, times, idx, warm, outpt, printed, outfile>>

\* the weights are loaded whatever the model
LoadWeightsAlways ==
    /\ pc = "weights"
    /\ weightsRead' = TRUE
    /\ IF weightsExists
       THEN /\ model' = [model EXCEPT !.weights = TRUE]
            /\ Goto("weights", "eval")
       ELSE /\ Raise("weights", "FileNotFoundError")
            /\ UNCHANGED model
    /\ UNCHANGED <<Params, inpt, times, idx, warm, outpt, printed, outfile>>

\* lines 124-125
LoadWeights ==
    /\ pc = "weights"
    /\ IF model_id # "midas"
       THEN /\ weightsRead' = TRUE
            /\ IF weightsExists
               THEN /\ model' = [model EXCEPT !.weights = TRUE]
                    /\ Goto("weights", "eval")
               ELSE /\ Raise("weights", "FileNotFoundError")
                    /\ UNCHANGED model
       ELSE /\ Goto("weights", "eval")
            /\ UNCHANGED <<model, weightsRead>>
    /\ UNCHANGED <<Params, inpt, times, idx, warm, outpt, printed, outfile>>

\* lines 127-131
Eval ==
    /\ pc = "eval"
    /\ model' = [model EXCEPT !.eval = TRUE]
    /\ printed' = Append(printed, Line("Number of parameters", "", 0, 0, NoTensor))
    /\ Goto("eval", "logger")
    /\ UNCHANGED <<Params, inpt, weightsRead, times, idx, warm, outpt, outfile>>

\* lines 134-143
InitLogger ==
    /\ pc = "logger"
    /\ times' = IF cuda THEN NpZeros(n_passes) ELSE times
    /\ inpt' = [inpt EXCEPT !.device = device]
    /\ Goto("logger", IF cuda THEN "warmup" ELSE "forward")
    /\ UNCHANGED <<Params, model, weightsRead, idx, warm, outpt, printed, outfile>>

\* a warm-up loop that stops one pass early
WarmUpShort ==
    /\ pc = "warmup"
    /\ warm < n_warmup - 1
    /\ \E ok \in BOOLEAN :
         IF ok
         THEN /\ warm' = warm + 1
              /\ Goto("warmup", IF warm + 1 < n_warmup - 1 THEN "warmup" ELSE "timed")
         ELSE /\ Raise("warmup", "RuntimeError")
              /\ UNCHANGED warm
    /\ UNCHANGED <<Params, inpt, model, weightsRead, times, idx, outpt, printed, outfile>>

\* lines 147-148, one iteration
WarmUp ==
    /\ pc = "warmup"
    /\ warm < n_warmup
    /\ \E ok \in BOOLEAN :
         IF ok
         THEN /\ warm' = warm + 1
              /\ Goto("warmup", IF warm + 1 < n_warmup THEN "warmup" ELSE "timed")
         ELSE /\ Raise("warmup", "RuntimeError")
              /\ UNCHANGED warm
    /\ UNCHANGED <<Params, inpt, model, weightsRead, times, idx, outpt, printed, outfile>>

\* a timed loop that discards the result of the pass, as the warm-up loop does
TimedPassDiscard ==
    /\ pc = "timed"
    /\ idx < n_passes
    /\ \E ok \in BOOLEAN :
         IF ok
         THEN /\ \E time \in latency : times' = Record(times, time)
              /\ idx' = idx + 1
              /\ Goto("timed", IF idx + 1 < n_passes THEN "timed" ELSE "report")
         ELSE /\ Raise("timed", "RuntimeError")
              /\ UNCHANGED <<times, idx>>
    /\ UNCHANGED <<Params, inpt, model, weightsRead, warm, outpt, printed, outfile>>

\* lines 151-159, one iteration
TimedPass ==
    /\ pc = "timed"
    /\ idx < n_passes
    /\ \E ok \in BOOLEAN :
         IF ok
         THEN /\ outpt' = Forward(model, inpt)
              /\ \E time \in latency : times' = Record(times, time)
              /\ idx' = idx + 1
              /\ Goto("timed", IF idx + 1 < n_passes THEN "timed" ELSE "report")
         ELSE /\ Raise("timed", "RuntimeError")
              /\ UNCHANGED <<outpt, times, idx>>
    /\ UNCHANGED <<Params, inpt, model, weightsRead, warm, printed, outfile>>

\* lines 161-162
Report ==
    /\ pc = "report"
    /\ printed' = printed \o
          << Line("Inference time (mean)", "", ReportedMean(times)[1],
                  ReportedMean(times)[2], NoTensor),
             Line("Inference time (std)", "", 0, 0, NoTensor) >>
    /\ Goto("report", "export")
    /\ UNCHANGED <<Params, inpt, model, weightsRead, times, idx, warm, outpt, outfile>>

\* line 164
CpuPass ==
    /\ pc = "forward"
    /\ \E ok \in BOOLEAN :
         IF ok
         THEN /\ outpt' = Forward(model, inpt)
              /\ Goto("forward", "export")
         ELSE /\ Raise("forward", "RuntimeError")
              /\ UNCHANGED outpt
    /\ UNCHANGED <<Params, inpt, model, weightsRead, times, idx, warm, printed, outfile>>

\* line 167: outpt.squeeze(0).cpu()
Squeeze(t) == [t EXCEPT !.device = "cpu"]

\* an exportation that prints the tensor whatever the model
ExportationPrintsAlways ==
    /\ pc = "export"
    /\ LET out == Squeeze(outpt)
       IN  /\ outpt' = IF model_id = "unet" THEN [out EXCEPT !.kind = "image"] ELSE out
           /\ printed' = Append(printed, Line("Output", "", 0, 0, out))
           /\ \E saved \in BOOLEAN :
                IF model_id \in {"unet", "midas"}
                THEN IF saved
                     THEN /\ outfile' = Append(outfile,
                                FileWrite(IF model_id = "unet" THEN "mask" ELSE "depth",
                                          out, NoImg))
                          /\ Goto("export", "vanishing")
                     ELSE /\ Raise("export", "OSError")
                          /\ UNCHANGED outfile
                ELSE /\ saved
                     /\ Goto("export", "vanishing")
                     /\ UNCHANGED outfile
    /\ UNCHANGED <<Params, inpt, model, weightsRead, times, idx, warm>>

\* lines 167-178; saved is whether the write to output_pth succeeds
Exportation ==
    /\ pc = "export"
    /\ LET out == Squeeze(outpt)
       IN  IF model_id = "unet"
           THEN /\ outpt' = [out EXCEPT !.kind = "image"]
                /\ \E saved \in BOOLEAN :
                     IF saved
                     THEN /\ outfile' = Append(outfile, FileWrite("mask", out, NoImg))
                          /\ Goto("export", "vanishing")
                     ELSE /\ Raise("export", "OSError")
                          /\ UNCHANGED outfile
                /\ UNCHANGED printed
           ELSE IF model_id = "midas"
           THEN /\ outpt' = out
                /\ \E saved \in BOOLEAN :
                     IF saved
                     THEN /\ outfile' = Append(outfile, FileWrite("depth", out, NoImg))
                          /\ Goto("export", "vanishing")
                     ELSE /\ Raise("export", "OSError")
                          /\ UNCHANGED outfile
                /\ UNCHANGED printed
           ELSE /\ outpt' = out
                /\ printed' = Append(printed, Line("Output", "", 0, 0, out))
                /\ Goto("export", "vanishing")
                /\ UNCHANGED outfile
    /\ UNCHANGED <<Params, inpt, model, weightsRead, times, idx, warm>>

\* line 183: cv2.imwrite(output_pth, img), its result ignored by main. It
\* writes the file and returns True, writes nothing and returns False (a
\* directory that does not exist), or raises (no writer for the extension).
ImwriteResults == {"written", "false", "raise"}

\* lines 181-183
VanishingPoint ==
    /\ pc = "vanishing"
    /\ IF vanishing
       THEN \E readable \in BOOLEAN, w \in 1..MaxDim, h \in 1..MaxDim :
              LET r == Vanishing(readable, w, h, outpt)
              IN  IF r.error = ""
                  THEN \E wr \in ImwriteResults :
                         IF wr = "written"
                         THEN /\ outfile' = Append(outfile,
                                               FileWrite("overlay", outpt, r.img))
                              /\ Goto("vanishing", "done")
                         ELSE IF wr = "false"
                         THEN /\ Goto("vanishing", "done")
                              /\ UNCHANGED outfile
                         ELSE /\ Raise("vanishing", "cv2.error")
                              /\ UNCHANGED outfile
                  ELSE /\ Raise("vanishing", r.error)
                       /\ UNCHANGED outfile
       ELSE /\ Goto("vanishing", "done")
            /\ UNCHANGED outfile
    /\ UNCHANGED <<Params, inpt, model, weightsRead, times, idx, warm, outpt, printed>>

Next ==
    \/ Device
    \/ Input
    \/ Model
    \/ LoadWeights
    \/ Eval
    \/ InitLogger
    \/ WarmUp
    \/ TimedPass
    \/ Report
    \/ CpuPass
    \/ Exportation
    \/ VanishingPoint

Spec == Init /\ [][Next]_vars

\* The same run with a timer whose reading varies from pass to pass, on one
\* network output shape
InitTiming ==
    /\ model_id \in ModelIds
    /\ vanishing \in BOOLEAN
    /\ cuda \in BOOLEAN
    /\ inputExists \in BOOLEAN
    /\ weightsExists \in BOOLEAN
    /\ net \in {t \in NetOutputs : t.numel = 4}
    /\ latency = TimeVals
    /\ pc = "device"
    /\ inpt = NoInput
    /\ model = NoModel
    /\ weightsRead = FALSE
    /\ times = NoTimes
    /\ idx = 0
    /\ warm = 0
    /\ outpt = NoTensor
    /\ printed = <<>>
    /\ outfile = <<>>
    /\ steps = <<>>
    /\ error = ""

SpecTiming == InitTiming /\ [][Next]_vars

----------------------------------------------------------------------------
(* Properties *)

Last(s) == s[Len(s)]
Attempted(step) == \E k \in 1..Len(steps) : steps[k] = step
FailedAt(step) == pc = "failed" /\ Len(steps) > 0 /\ Last(steps) = step

IsPass(step) == step \in {"warmup", "timed", "forward"}
Passes == SelectSeq(steps, IsPass)

IsOutputLine(l) == l.tag = "Output"
IsMeanLine(l) == l.tag = "Inference time (mean)"
IsTimingLine(l) == l.tag \in {"Inference time (mean)", "Inference time (std)"}

Repeat(x, k) == [i \in 1..k |-> x]

\* the steps of a run that nothing interrupts
CanonSteps ==
    <<"device", "input", "model", "weights", "eval", "logger">>
    \o (IF cuda
        THEN Repeat("warmup", n_warmup) \o Repeat("timed", n_passes) \o <<"report">>
        ELSE <<"forward">>)
    \o <<"export", "vanishing">>

IsPrefix(s, t) == Len(s) <= Len(t) /\ \A k \in 1..Len(s) : s[k] = t[k]

\* the tensor one forward pass of the loaded model yields on the input, on the host
RefTensor == [kind |-> "tensor", device |-> "cpu", numel |-> net.numel, vp |-> net.vp]

\* the grid cells of an overlay that end in the highlight colour
GreenCells(img) ==
    LET k == Len(img.rects)
    IN  {c \in 1..(k - 1) : /\ img.rects[c].p1 = img.rects[k].p1
                            /\ img.rects[c].p2 = img.rects[k].p2}

\* C1: with a model_id outside the five recognized ones, model selection falls
\* back to densenet161 and the run goes past model construction.
C1_FallsBackToDefault ==
    (model_id \notin Recognized /\ Attempted("model"))
        => (model.ctor = "densenet161" /\ ~FailedAt("model"))

\* what the environment alone can raise in the overlay step: an image cv2
\* cannot read, a file cv2 cannot write
OverlayEnvErrors == {"AttributeError", "cv2.error"}

\* C2: with vanishing set, for every model type and every output, the overlay
\* step never fails on the output it is given (the highlighted cell is always
\* defined), and an overlay it writes has the dimensions of the image read and
\* exactly one grid cell in green, the others in red.
C2_OverlayAlwaysDrawn ==
    (vanishing /\ Attempted("vanishing"))
        => /\ error \in {""} \cup OverlayEnvErrors
           /\ \A k \in 1..Len(outfile) :
                outfile[k].kind = "overlay" =>
                   /\ outfile[k].img.w \in 1..MaxDim
                   /\ outfile[k].img.h \in 1..MaxDim
                   /\ Cardinality(GreenCells(outfile[k].img)) = 1
                   /\ Last(outfile[k].img.rects).colour = "green"
                   /\ \A c \in 1..(Len(outfile[k].img.rects) - 1) :
                         outfile[k].img.rects[c].colour = "red"

\* C3: a midas run never reads the weights file and never fails on it; a run
\* of any other recognized model has its weights loaded before any forward pass.
C3_WeightsOnlyWhenNeeded ==
    /\ model_id = "midas" => (~weightsRead /\ ~FailedAt("weights"))
    /\ (model_id \in Recognized \ {"midas"} /\ Passes # <<>>)
          => (weightsRead /\ model.weights)

C3_Witness ==
    /\ model_id = "midas"
    /\ ~weightsExists
    /\ pc = "done"
    /\ Passes # <<>>

\* C4: with an accelerated device a run that finishes prediction has made
\* exactly 10 warm-up passes and then exactly 100 timed passes, each timed one
\* recording a time; without one it has made exactly one pass, recorded no
\* time and printed no timing line.
C4_PassCounts ==
    /\ IsPrefix(Passes, IF cuda
                        THEN Repeat("warmup", n_warmup) \o Repeat("timed", n_passes)
                        ELSE <<"forward">>)
    /\ TimesSize(times) - times[0] = idx
    /\ Attempted("export") =>
          IF cuda
          THEN /\ Len(Passes) = n_warmup + n_passes
               /\ warm = 10
               /\ idx = 100
               /\ TimesSize(times) = 100
               /\ times[0] = 0
               /\ Len(SelectSeq(printed, IsTimingLine)) = 2
          ELSE /\ Passes = <<"forward">>
               /\ times = NoTimes
               /\ SelectSeq(printed, IsTimingLine) = <<>>

C4_Witness ==
    /\ cuda
    /\ pc = "done"
    /\ idx = n_passes
    /\ times[1] > 0
    /\ times[2] > 0

\* C5: the value printed as the mean inference time is the sum of the
\* recorded times divided by the number of timed passes.
C5_MeanIsArithmeticMean ==
    \A k \in 1..Len(printed) :
        IsMeanLine(printed[k]) =>
            printed[k].num * n_passes = TimesSum(times) * printed[k].den

\* C6: after exportation, unet has written the arg-max mask and printed no
\* tensor, midas has written the depth image and printed no tensor, any other
\* model has printed the tensor; and without vanishing such a model never
\* writes to the output path.
C6_DispatchOnModel ==
    /\ (Attempted("export") /\ ~FailedAt("export")) =>
          IF model_id = "unet"
          THEN /\ outfile # <<>>
               /\ outfile[1] = FileWrite("mask", RefTensor, NoImg)
               /\ SelectSeq(printed, IsOutputLine) = <<>>
          ELSE IF model_id = "midas"
          THEN /\ outfile # <<>>
               /\ outfile[1] = FileWrite("depth", RefTensor, NoImg)
               /\ SelectSeq(printed, IsOutputLine) = <<>>
          ELSE /\ SelectSeq(printed, IsOutputLine) = <<Line("Output", "", 0, 0, RefTensor)>>
               /\ \A k \in 1..Len(outfile) : outfile[k].kind = "overlay"
    /\ (model_id \notin {"unet", "midas"} /\ ~vanishing) => outfile = <<>>

C6_Witness ==
    /\ model_id = "unet"
    /\ ~vanishing
    /\ pc = "done"
    /\ Len(outfile) = 1

\* C7: with or without an accelerated device, post-processing receives the
\* result of one forward pass of the unchanged model on the unchanged input,
\* and what it prints and writes is determined by that tensor.
C7_SameOutputOnBothPaths ==
    /\ pc = "export" =>
          /\ Squeeze(outpt) = RefTensor
          /\ model = [ctor |-> model_id, device |-> device,
                      weights |-> (model_id # "midas"), eval |-> TRUE]
          /\ inpt = [kind |-> "tensor", size |-> size, device |-> device]
          /\ outfile = <<>>
          /\ SelectSeq(printed, IsOutputLine) = <<>>
    /\ pc \in {"vanishing", "done"} =>
          /\ outpt = [RefTensor EXCEPT
                        !.kind = IF model_id = "unet" THEN "image" ELSE "tensor"]
          /\ \A k \in 1..Len(printed) :
                IsOutputLine(printed[k]) => printed[k].tensor = RefTensor
          /\ \A k \in 1..Len(outfile) :
                /\ outfile[k].tensor = RefTensor
                /\ outfile[k].kind = "overlay" =>
                      \E w \in 1..MaxDim, h \in 1..MaxDim :
                          outfile[k].img = Vanishing(TRUE, w, h, RefTensor).img

C7_Witness ==
    /\ cuda
    /\ pc = "done"
    /\ vanishing
    /\ Len(outfile) = 2

\* C8: with vanishing set, for every model type, the overlay step completes
\* unless the environment fails it (image unreadable, output path unwritable),
\* and an overlay written is the last write to the output path. Stated on the
\* outputs whose arg-max index lies in the grid, where the highlighted cell of
\* C2 is defined.
C8_OverlayIsFinalContent ==
    (/\ vanishing
     /\ Attempted("vanishing")
     /\ net.vp < IntSqrt(net.numel) * IntSqrt(net.numel))
        => /\ error \in {""} \cup OverlayEnvErrors
           /\ (pc = "done" \/ error \in OverlayEnvErrors)
           /\ \A k \in 1..Len(outfile) :
                outfile[k].kind = "overlay" => k = Len(outfile)

\* C9: for an output of n*n elements the overlay holds the n*n cells of size
\* (w div n) by (h div n) row by row, then the highlighted cell of row
\* vp div n and column vp mod n, and every rectangle lies within the image.
C9_GridGeometry ==
    \A k \in 1..Len(outfile) :
      outfile[k].kind = "overlay" =>
        LET img == outfile[k].img
            w == img.w
            h == img.h
            vp == outfile[k].tensor.vp
            numel == outfile[k].tensor.numel
        IN  \A n \in 1..numel :
              n * n = numel =>
                /\ Len(img.rects) = n * n + 1
                /\ \A c \in 1..(n * n) :
                      img.rects[c] =
                        Rect(<<((c - 1) % n) * (w \div n), ((c - 1) \div n) * (h \div n)>>,
                             <<(((c - 1) % n) + 1) * (w \div n),
                               (((c - 1) \div n) + 1) * (h \div n)>>, "red")
                /\ img.rects[n * n + 1] =
                        Rect(<<(vp % n) * (w \div n), (vp \div n) * (h \div n)>>,
                             <<((vp % n) + 1) * (w \div n), ((vp \div n) + 1) * (h \div n)>>,
                             "green")
                /\ \A c \in 1..Len(img.rects) :
                      /\ img.rects[c].p1[1] \in 0..w
                      /\ img.rects[c].p2[1] \in 0..w
                      /\ img.rects[c].p1[2] \in 0..h
                      /\ img.rects[c].p2[2] \in 0..h

C9_Witness ==
    /\ pc = "done"
    /\ outfile # <<>>
    /\ Last(outfile).kind = "overlay"
    /\ Last(outfile).tensor.numel = 4
    /\ Last(outfile).tensor.vp = 2
    /\ Last(outfile).img.w = 4
    /\ Last(outfile).img.h = 3

\* C10: a step that fails ends the run: the steps attempted are always a
\* prefix of the steps of an uninterrupted run (none retried, none skipped),
\* nothing follows a failure, and a failure before exportation leaves the
\* output path unwritten.
C10_FailureIsFatal ==
    /\ IsPrefix(steps, CanonSteps)
    /\ (pc = "failed") = (error # "")
    /\ pc = "failed" => ~ENABLED Next
    /\ (pc = "failed" /\ ~FailedAt("export") /\ ~FailedAt("vanishing"))
          => outfile = <<>>

C10_Witness ==
    /\ FailedAt("timed")
    /\ idx > 0
    /\ error = "RuntimeError"

====
